---- MODULE Spec2Model ----
(***************************************************************************)
(* Cart engine of the SM Furnishing backend (src/server.js): the five      *)
(* /api/cart handlers over the MongoDB collections `cart` and `products`;  *)
(* and its OTP ledger: /api/send-otp and /api/verify-otp over `otps`; and  *)
(* /api/signup over `users`.                                               *)
(* Every handler is split at its awaits: one action per store call, which  *)
(* performs the call and the synchronous code up to the next call.         *)
(* The dates of the cart documents (createdAt, updatedAt, addedAt) and the *)
(* productName/productImage snapshots are left out: no handler branches on *)
(* them. Time is counted in minutes.                                       *)
(***************************************************************************)
EXTENDS Integers, Sequences, FiniteSets, TLC

VARIABLES
    products,   \* the products collection: ObjectId -> document or None
    carts,      \* the cart collection: a set of documents
    req,        \* per request slot, the handler's position and local variables
    log,        \* None, or the calls answered so far, oldest first (history)
    otps,       \* the otps collection: a set of documents
    otpSeq,     \* the number of documents inserted into otps so far
    now,        \* the clock, in minutes
    oreq,       \* per request slot, the OTP handler's position and locals
    users,      \* the users collection: a set of documents
    sreq        \* per request slot, the signup handler's position and locals

otpVars == <<otps, otpSeq, now, oreq>>

signupVars == <<users, sreq>>

vars == <<products, carts, req, log, otps, otpSeq, now, oreq, users, sreq>>

\* Largest quantity a request carries.
MaxQty == 3
\* Largest number of lines the model lets a cart grow to.
MaxLines == 2
\* Largest number of OTP documents the model lets be inserted.
MaxIssues == 3
\* The latest time the model's clock reaches.
MaxNow == 12

\* JavaScript null / undefined, and a present value.
None == <<>>
Some(x) == <<x>>
Val(o) == o[1]

Users == {"u1", "u2"}

\* ------------------------------------------------------------- ObjectId
\* Strings standing for 24-character hexadecimal strings. "P1" is "p1"
\* written with upper-case hexadecimal digits.
HexStrings == {"p1", "P1", "p2", "P2"}

\* ObjectId.isValid(s) for a string s.
ObjectIdIsValid(s) == s \in HexStrings

\* Hexadecimal digits are parsed case-insensitively.
HexLower(s) == CASE s = "P1" -> "p1" [] s = "P2" -> "p2" [] OTHER -> s

\* new ObjectId(s), for a valid s (an invalid s throws).
NewObjectId(s) == [hex |-> HexLower(s)]

\* ObjectId.prototype.toString(): the lower-case hexadecimal string.
ObjectIdToString(o) == o.hex

\* ------------------------------------------------------------- products
ProductIds == {NewObjectId("p1"), NewObjectId("p2")}

Prices == {100, 120}

InitProducts ==
    [o \in ProductIds |->
        IF o = NewObjectId("p1") THEN Some([price |-> 100, stock |-> 2])
                                 ELSE Some([price |-> 120, stock |-> 1])]

\* productsCollection.findOne({ _id })
ProductFindOne(o) == IF o \in DOMAIN products THEN products[o] ELSE None

\* ----------------------------------------------------------------- cart
\* items.reduce((total, item) => total + item.priceAtTime * item.quantity, 0)
RECURSIVE ReduceAmount(_)
ReduceAmount(items) ==
    IF items = <<>> THEN 0
    ELSE ReduceAmount(SubSeq(items, 1, Len(items) - 1))
         + items[Len(items)].priceAtTime * items[Len(items)].quantity

\* items.reduce((total, item) => total + item.quantity, 0)
RECURSIVE ReduceItems(_)
ReduceItems(items) ==
    IF items = <<>> THEN 0
    ELSE ReduceItems(SubSeq(items, 1, Len(items) - 1)) + items[Len(items)].quantity

\* Mutant: totalItems is left as it was.
RecalculateTotals_AmountOnly(cart) ==
    [cart EXCEPT !.totalAmount = ReduceAmount(cart.items)]

\* Mutant: the lines are priced again at the catalog's prices.
RecalculateTotals_Reprice(cart) ==
    LET priced == [i \in 1..Len(cart.items) |->
                     LET product == products[cart.items[i].productId]
                     IN IF product = None THEN cart.items[i]
                        ELSE [cart.items[i] EXCEPT !.priceAtTime = Val(product).price]]
    IN [cart EXCEPT !.items = priced,
                    !.totalAmount = ReduceAmount(priced),
                    !.totalItems = ReduceItems(priced)]

\* "Recalculate totals" of a handler, on its local cart.
RecalculateTotals(cart) ==
    [cart EXCEPT !.totalAmount = ReduceAmount(cart.items),
                 !.totalItems = ReduceItems(cart.items)]

\* Mutant: the -1 of a product without a line is taken for the last position.
FindIndex_MissIsLast(items, productId) ==
    LET hits == {i \in 1..Len(items) : ObjectIdToString(items[i].productId) = productId}
    IN IF hits = {} THEN Len(items) ELSE CHOOSE i \in hits : \A j \in hits : i <= j

\* cart.items.findIndex(item => item.productId.toString() === productId):
\* the first matching position, counted from 1; 0 stands for JavaScript's -1.
FindIndex(items, productId) ==
    LET hits == {i \in 1..Len(items) : ObjectIdToString(items[i].productId) = productId}
    IN IF hits = {} THEN 0 ELSE CHOOSE i \in hits : \A j \in hits : i <= j

\* Mutant: splice(index, 0) removes nothing.
Splice_None(items, index) == items

\* cart.items.splice(index, 1)
Splice(items, index) ==
    SubSeq(items, 1, index - 1) \o SubSeq(items, index + 1, Len(items))

\* The cart object literal of GET /api/cart and POST /api/cart/add; id 0
\* stands for a document that has no _id yet.
NewCart(userId) ==
    [id |-> 0, userId |-> userId, items |-> <<>>, totalAmount |-> 0,
     totalItems |-> 0, status |-> "active"]

\* The cartItem object literal of POST /api/cart/add.
CartItem(productId, product, quantity) ==
    [productId |-> NewObjectId(productId), quantity |-> quantity,
     priceAtTime |-> product.price]

\* Mutant: a quantity equal to the stock is refused too.
StockBelow_Inclusive(product, quantity) == product.stock <= quantity

\* Mutant: one item more than the stock is let through.
StockBelow_OffByOne(product, quantity) == product.stock + 1 < quantity

\* The stock checks: product.stock < quantity.
StockBelow(product, quantity) == product.stock < quantity

\* cart.items[index].quantity = quantity
SetQuantity(cart, index, quantity) ==
    [cart EXCEPT !.items[index].quantity = quantity]

\* ----------------------------------------------------- cart collection
\* The $jsonSchema validator of the cart collection.
ValidCart(doc) ==
    /\ \A i \in 1..Len(doc.items) :
          doc.items[i].quantity >= 1 /\ doc.items[i].priceAtTime >= 0
    /\ doc.totalAmount >= 0
    /\ doc.totalItems >= 0
    /\ doc.status \in {"active", "abandoned", "converted"}

\* Mutant: the collection has no unique index.
UserIdTaken_NoIndex(doc) == FALSE

\* The unique index { userId: 1 } of the cart collection.
UserIdTaken(doc) == \E c \in carts : c.userId = doc.userId

\* Mutant: the filter has no userId.
CartFindOne_AnyUser(userId) ==
    LET m == {c \in carts : c.status = "active"}
    IN IF m = {} THEN None ELSE Some(CHOOSE c \in m : \A d \in m : c.id <= d.id)

\* cartCollection.findOne({ userId, status: 'active' })
CartFindOne(userId) ==
    LET m == {c \in carts : c.userId = userId /\ c.status = "active"}
    IN IF m = {} THEN None ELSE Some(CHOOSE c \in m : \A d \in m : c.id <= d.id)

\* Mutant: the document is acknowledged and not stored.
CartInsertOne_NotStored(doc) ==
    [ok |-> TRUE, carts |-> carts, doc |-> [doc EXCEPT !.id = Cardinality(carts) + 1]]

\* cartCollection.insertOne(doc): ok is FALSE when the call throws.
CartInsertOne(doc) ==
    LET d == [doc EXCEPT !.id = Cardinality(carts) + 1]
    IN IF ValidCart(doc) /\ ~UserIdTaken(doc)
       THEN [ok |-> TRUE, carts |-> carts \cup {d}, doc |-> d]
       ELSE [ok |-> FALSE, carts |-> carts, doc |-> doc]

\* Mutant: the replacement is acknowledged and not stored.
CartReplaceOne_NotStored(doc) == [ok |-> TRUE, carts |-> carts, doc |-> doc]

\* cartCollection.replaceOne({ _id: doc._id }, doc)
CartReplaceOne(doc) ==
    IF ValidCart(doc)
    THEN [ok |-> TRUE, carts |-> {IF c.id = doc.id THEN doc ELSE c : c \in carts},
          doc |-> doc]
    ELSE [ok |-> FALSE, carts |-> carts, doc |-> doc]

\* ------------------------------------------------------------- requests
Slots == {1, 2}

IdleReq ==
    [pc |-> "idle", op |-> "none", userId |-> "", productId |-> "",
     quantity |-> None, product |-> None, found |-> None, cart |-> None,
     index |-> 0, res |-> None]

\* A kept log holds the calls of a scenario of up to three calls.
CallsLeft == IF log = None THEN TRUE ELSE Len(Val(log)) < 3

\* A handler may start on a slot that runs no handler.
Free(s) == req[s].pc \in {"idle", "done"} /\ CallsLeft

\* res.status(status).json({ success, error, cart }); avail is the number the
\* message names (-1 when it names none).
Respond(r, status, error, avail, cart) ==
    [r EXCEPT !.pc = "done",
              !.res = Some([status |-> status, error |-> error, avail |-> avail,
                            cart |-> cart])]

\* The catch block of a handler.
Respond500(r) == Respond(r, 500, "Internal", -1, None)

\* What the log keeps of an answered call.
Call(r) ==
    [op |-> r.op, userId |-> r.userId, productId |-> r.productId,
     quantity |-> r.quantity, product |-> r.product, res |-> Val(r.res)]

\* Slot s moves to r; a log that is kept records the call once it is answered.
Step(s, r) ==
    /\ req' = [req EXCEPT ![s] = r]
    /\ log' = IF log # None /\ r.pc = "done" THEN Some(Append(Val(log), Call(r)))
              ELSE log
    /\ UNCHANGED <<otpVars, signupVars>>

\* The model lets a cart grow to MaxLines lines.
Fits(userId, productId) ==
    LET f == CartFindOne(userId)
    IN IF f = None THEN TRUE
       ELSE IF FindIndex(Val(f).items, productId) > 0 THEN TRUE
       ELSE Len(Val(f).items) < MaxLines

\* The OTP request of a slot that has run no OTP handler.
OtpIdleReq ==
    [pc |-> "idle", op |-> "none", email |-> "", otp |-> None, code |-> "",
     at |-> 0, found |-> None, res |-> None]

\* No OTP was issued yet.
InitOtps ==
    /\ otps = {}
    /\ otpSeq = 0
    /\ now = 0
    /\ oreq = [s \in Slots |-> OtpIdleReq]

\* The signup request of a slot that has run no signup handler.
SignupIdleReq ==
    [pc |-> "idle", email |-> "", password |-> "", name |-> "",
     newUser |-> None, res |-> None]

\* Nobody has signed up yet.
InitUsers ==
    /\ users = {}
    /\ sreq = [s \in Slots |-> SignupIdleReq]

Init ==
    /\ products = InitProducts
    /\ carts = {}
    /\ req = [s \in Slots |-> IdleReq]
    /\ log = None
    /\ InitOtps
    /\ InitUsers

\* ------------------------------------------------------- GET /api/cart
\* findOne; a cart that is found is returned as it is.
GetCartFind(s, u) ==
    /\ Free(s)
    /\ LET r == [IdleReq EXCEPT !.op = "getCart", !.userId = u]
           found == CartFindOne(u)
       IN Step(s,
            IF found # None
            THEN Respond([r EXCEPT !.found = found, !.cart = found], 200, "", -1, found)
            ELSE [r EXCEPT !.pc = "get_insert", !.cart = Some(NewCart(u))])
    /\ UNCHANGED <<products, carts>>

\* insertOne of the empty cart.
GetCartInsert(s) ==
    /\ req[s].pc = "get_insert"
    /\ LET r == req[s]
           w == CartInsertOne(Val(r.cart))
       IN /\ carts' = w.carts
          /\ Step(s,
               IF w.ok
               THEN Respond([r EXCEPT !.cart = Some(w.doc)], 200, "", -1, Some(w.doc))
               ELSE Respond500(r))
    /\ UNCHANGED products

\* -------------------------------------------------- POST /api/cart/add
\* Validation, new ObjectId(productId), productsCollection.findOne and the
\* first stock check.
AddItemFindProduct(s, u, p, q) ==
    /\ Free(s)
    /\ Fits(u, p)
    /\ LET r == [IdleReq EXCEPT !.op = "addItem", !.userId = u, !.productId = p,
                                !.quantity = q]
       IN Step(s,
            IF p = "" \/ q = None \/ Val(q) = 0
            THEN Respond(r, 400, "Missing required fields", -1, None)
            ELSE IF Val(q) <= 0
            THEN Respond(r, 400, "Invalid quantity", -1, None)
            ELSE IF ~ObjectIdIsValid(p)
            THEN Respond500(r)
            ELSE LET product == ProductFindOne(NewObjectId(p))
                 IN IF product = None
                    THEN Respond(r, 404, "Product does not exist", -1, None)
                    ELSE IF StockBelow(Val(product), Val(q))
                    THEN Respond([r EXCEPT !.product = product], 400,
                                 "Insufficient stock", Val(product).stock, None)
                    ELSE [r EXCEPT !.pc = "add_findCart", !.product = product])
    /\ UNCHANGED <<products, carts>>

\* cartCollection.findOne, the existing-line or new-line branch and the totals.
AddItemFindCart(s) ==
    /\ req[s].pc = "add_findCart"
    /\ LET r == req[s]
           found == CartFindOne(r.userId)
           cart == IF found = None THEN NewCart(r.userId) ELSE Val(found)
           existingItemIndex == FindIndex(cart.items, r.productId)
           quantity == Val(r.quantity)
           product == Val(r.product)
           rf == [r EXCEPT !.found = found, !.index = existingItemIndex]
       IN /\ IF existingItemIndex > 0 THEN TRUE ELSE Len(cart.items) < MaxLines
          /\ Step(s,
               IF existingItemIndex > 0
               THEN LET newQuantity == cart.items[existingItemIndex].quantity + quantity
                    IN IF StockBelow(product, newQuantity)
                       THEN Respond(rf, 400, "Insufficient stock for total quantity",
                                    product.stock - cart.items[existingItemIndex].quantity,
                                    None)
                       ELSE [rf EXCEPT !.pc = "add_save", !.cart = Some(RecalculateTotals(
                              SetQuantity(cart, existingItemIndex, newQuantity)))]
               ELSE [rf EXCEPT !.pc = "add_save", !.cart = Some(RecalculateTotals(
                      [cart EXCEPT !.items =
                          Append(cart.items, CartItem(r.productId, product, quantity))]))])
    /\ UNCHANGED <<products, carts>>

\* Mutant: a saved addItem takes its quantity from the product's stock.
AddItemSave_Reserves(s) ==
    /\ req[s].pc = "add_save"
    /\ LET r == req[s]
           cart == Val(r.cart)
           o == NewObjectId(r.productId)
           w == IF cart.id # 0 THEN CartReplaceOne(cart) ELSE CartInsertOne(cart)
       IN /\ carts' = w.carts
          /\ products' = IF w.ok /\ products[o] # None
                         THEN [products EXCEPT ![o] = Some([Val(@) EXCEPT
                                 !.stock = IF @ >= Val(r.quantity) THEN @ - Val(r.quantity) ELSE 0])]
                         ELSE products
          /\ Step(s,
               IF w.ok
               THEN Respond([r EXCEPT !.cart = Some(w.doc)], 200, "", -1, Some(w.doc))
               ELSE Respond500(r))

\* replaceOne when the cart was found, insertOne when it was created here.
AddItemSave(s) ==
    /\ req[s].pc = "add_save"
    /\ LET r == req[s]
           cart == Val(r.cart)
           w == IF cart.id # 0 THEN CartReplaceOne(cart) ELSE CartInsertOne(cart)
       IN /\ carts' = w.carts
          /\ Step(s,
               IF w.ok
               THEN Respond([r EXCEPT !.cart = Some(w.doc)], 200, "", -1, Some(w.doc))
               ELSE Respond500(r))
    /\ UNCHANGED products

\* ------------------------------------------------ PUT /api/cart/update
\* Validation, cartCollection.findOne and findIndex; quantity 0 splices here.
UpdateItemFindCart(s, u, p, q) ==
    /\ Free(s)
    /\ LET r == [IdleReq EXCEPT !.op = "updateItem", !.userId = u, !.productId = p,
                                !.quantity = q]
           found == CartFindOne(u)
           itemIndex == IF found = None THEN 0 ELSE FindIndex(Val(found).items, p)
           rf == [r EXCEPT !.found = found, !.index = itemIndex]
       IN Step(s,
            IF p = "" \/ q = None
            THEN Respond(r, 400, "Missing required fields", -1, None)
            ELSE IF Val(q) < 0
            THEN Respond(r, 400, "Invalid quantity", -1, None)
            ELSE IF found = None
            THEN Respond(rf, 404, "No active cart exists", -1, None)
            ELSE IF itemIndex = 0
            THEN Respond(rf, 404, "Product not in cart", -1, None)
            ELSE IF Val(q) > 0
            THEN [rf EXCEPT !.pc = "update_findProduct", !.cart = found]
            ELSE [rf EXCEPT !.pc = "update_save", !.cart = Some(RecalculateTotals(
                   [Val(found) EXCEPT !.items = Splice(Val(found).items, itemIndex)]))])
    /\ UNCHANGED <<products, carts>>

\* productsCollection.findOne, the stock check and the new quantity.
UpdateItemFindProduct(s) ==
    /\ req[s].pc = "update_findProduct"
    /\ LET r == req[s]
           cart == Val(r.cart)
           quantity == Val(r.quantity)
           product == ProductFindOne(NewObjectId(r.productId))
       IN Step(s,
            IF product = None
            THEN Respond(r, 404, "Product does not exist", -1, None)
            ELSE IF StockBelow(Val(product), quantity)
            THEN Respond([r EXCEPT !.product = product], 400, "Insufficient stock",
                         Val(product).stock, None)
            ELSE [r EXCEPT !.pc = "update_save", !.product = product,
                           !.cart = Some(RecalculateTotals(
                              SetQuantity(cart, r.index, quantity)))])
    /\ UNCHANGED <<products, carts>>

\* replaceOne of the whole document.
UpdateItemSave(s) ==
    /\ req[s].pc = "update_save"
    /\ LET r == req[s]
           w == CartReplaceOne(Val(r.cart))
       IN /\ carts' = w.carts
          /\ Step(s,
               IF w.ok THEN Respond(r, 200, "", -1, r.cart) ELSE Respond500(r))
    /\ UNCHANGED products

\* --------------------------------- DELETE /api/cart/item/:productId
\* ObjectId.isValid, cartCollection.findOne, findIndex and the splice.
RemoveItemFindCart(s, u, p) ==
    /\ Free(s)
    /\ LET r == [IdleReq EXCEPT !.op = "removeItem", !.userId = u, !.productId = p]
           found == CartFindOne(u)
           itemIndex == IF found = None THEN 0 ELSE FindIndex(Val(found).items, p)
           rf == [r EXCEPT !.found = found, !.index = itemIndex]
       IN Step(s,
            IF ~ObjectIdIsValid(p)
            THEN Respond(r, 400, "Invalid ObjectId", -1, None)
            ELSE IF found = None
            THEN Respond(rf, 404, "No active cart exists", -1, None)
            ELSE IF itemIndex = 0
            THEN Respond(rf, 404, "Product not in cart", -1, None)
            ELSE [rf EXCEPT !.pc = "remove_save", !.cart = Some(RecalculateTotals(
                   [Val(found) EXCEPT !.items = Splice(Val(found).items, itemIndex)]))])
    /\ UNCHANGED <<products, carts>>

\* replaceOne of the whole document.
RemoveItemSave(s) ==
    /\ req[s].pc = "remove_save"
    /\ LET r == req[s]
           w == CartReplaceOne(Val(r.cart))
       IN /\ carts' = w.carts
          /\ Step(s,
               IF w.ok THEN Respond(r, 200, "", -1, r.cart) ELSE Respond500(r))
    /\ UNCHANGED products

\* ---------------------------------------------- DELETE /api/cart/clear
\* cartCollection.findOne; items and totals are set, not recomputed.
ClearCartFind(s, u) ==
    /\ Free(s)
    /\ LET r == [IdleReq EXCEPT !.op = "clearCart", !.userId = u]
           found == CartFindOne(u)
           rf == [r EXCEPT !.found = found]
       IN Step(s,
            IF found = None
            THEN Respond(rf, 404, "No active cart exists", -1, None)
            ELSE [rf EXCEPT !.pc = "clear_save", !.cart = Some(
                   [Val(found) EXCEPT !.items = <<>>, !.totalAmount = 0,
                                      !.totalItems = 0])])
    /\ UNCHANGED <<products, carts>>

\* Mutant: the cart is cleared by deleting its document.
ClearCartSave_DeleteOne(s) ==
    /\ req[s].pc = "clear_save"
    /\ carts' = {c \in carts : c.id # Val(req[s].cart).id}
    /\ Step(s, Respond(req[s], 200, "", -1, req[s].cart))
    /\ UNCHANGED products

\* replaceOne of the whole document.
ClearCartSave(s) ==
    /\ req[s].pc = "clear_save"
    /\ LET r == req[s]
           w == CartReplaceOne(Val(r.cart))
       IN /\ carts' = w.carts
          /\ Step(s,
               IF w.ok THEN Respond(r, 200, "", -1, r.cart) ELSE Respond500(r))
    /\ UNCHANGED products

\* ------------------------------------------------------------- catalog
\* The products collection is shared with writers outside the cart engine:
\* a product document's price is set to another value.
CatalogPriceChange(o, price) ==
    /\ products[o] # None
    /\ Val(products[o]).price # price
    /\ products' = [products EXCEPT ![o] = Some([Val(products[o]) EXCEPT !.price = price])]
    /\ UNCHANGED <<carts, req, log, otpVars, signupVars>>

\* DELETE /api/products/:id
DeleteProduct(o) ==
    /\ products[o] # None
    /\ products' = [products EXCEPT ![o] = None]
    /\ UNCHANGED <<carts, req, log, otpVars, signupVars>>

\* ---------------------------------------------------------- otp ledger
cartVars == <<products, carts, req, log>>

\* email.toLowerCase(): "A@x.io" is "a@x.io" written with an upper-case letter.
ToLowerCase(e) == IF e = "A@x.io" THEN "a@x.io" ELSE e

\* emailRegex.test(email): "nomail" has no @.
EmailRegexTest(e) == e \in {"a@x.io", "A@x.io", "b@x.io"}

\* Math.floor(100000 + Math.random() * 900000).toString(): the smallest and
\* the largest code.
Codes == {"100000", "999999"}

\* The otp of a request body: a JSON string or a JSON number.
Str(v) == [type |-> "string", s |-> v]

Num(n) == [type |-> "number", n |-> n]

\* otp.toString()
OtpToString(o) ==
    IF o.type = "string" THEN o.s
    ELSE CASE o.n = 100000 -> "100000" [] o.n = 999999 -> "999999"

\* The age above which verify-otp refuses a record, in minutes.
OtpMinutes == 10

\* expireAfterSeconds: 600 of the TTL index on createdAt, in minutes.
TtlMinutes == 10

\* (now - otpRecord.createdAt) / 1000 / 60, at time t
OtpAge(record, t) == t - record.createdAt

\* Mutant: a record aged exactly ten minutes is refused too.
Expired_Inclusive(otpAge) == otpAge >= OtpMinutes

\* Mutant: the age is compared with eleven minutes.
Expired_Lenient(otpAge) == otpAge > OtpMinutes + 1

\* otpAge > 10
Expired(otpAge) == otpAge > OtpMinutes

\* Mutant: the earlier records of the email are kept.
OtpDeleteMany_None(email) == otps

\* otpCollection.deleteMany({ email })
OtpDeleteMany(email) == {r \in otps : r.email # email}

\* The otpRecord object literal; id 0 stands for a document without _id.
OtpRecord(email, otp, createdAt) ==
    [id |-> 0, email |-> email, otp |-> otp, createdAt |-> createdAt,
     verified |-> FALSE, verifiedAt |-> None]

\* otpCollection.insertOne(doc): the collection has no unique index.
OtpInsertOne(doc) == otps \cup {[doc EXCEPT !.id = otpSeq + 1]}

\* Mutant: verified records match too.
OtpFindOne_AnyVerified(email, otp) ==
    LET m == {r \in otps : r.email = email /\ r.otp = otp}
    IN IF m = {} THEN None ELSE Some(CHOOSE r \in m : \A q \in m : r.id <= q.id)

\* otpCollection.findOne({ email, otp, verified: false })
OtpFindOne(email, otp) ==
    LET m == {r \in otps : r.email = email /\ r.otp = otp /\ ~r.verified}
    IN IF m = {} THEN None ELSE Some(CHOOSE r \in m : \A q \in m : r.id <= q.id)

\* otpCollection.deleteOne({ _id })
OtpDeleteOne(id) == {r \in otps : r.id # id}

\* otpCollection.updateOne({ _id }, { $set: { verified: true, verifiedAt } })
OtpUpdateOne(id, verifiedAt) ==
    {IF r.id = id THEN [r EXCEPT !.verified = TRUE, !.verifiedAt = Some(verifiedAt)]
     ELSE r : r \in otps}

\* A handler may start on a slot that runs no OTP handler.
OtpFree(s) == oreq[s].pc \in {"idle", "done"} /\ CallsLeft

\* res.status(status).json({ success, message })
OtpRespond(r, status, message) ==
    [r EXCEPT !.pc = "done", !.res = Some([status |-> status, message |-> message])]

\* What the log keeps of an answered OTP call.
OtpCall(r) ==
    [op |-> r.op, email |-> r.email, code |-> r.code, at |-> r.at,
     found |-> r.found, res |-> Val(r.res)]

\* Slot s moves to r; a log that is kept records the call once it is answered.
OtpStep(s, r) ==
    /\ oreq' = [oreq EXCEPT ![s] = r]
    /\ log' = IF log # None /\ r.pc = "done" THEN Some(Append(Val(log), OtpCall(r)))
              ELSE log
    /\ UNCHANGED <<products, carts, req, signupVars>>

\* The model lets MaxIssues documents be inserted.
IssuesLeft ==
    otpSeq + Cardinality({t \in Slots : oreq[t].pc = "issue_insert"}) < MaxIssues

\* ---------------------------------------------------- POST /api/send-otp
\* Validation, the code c that is generated, deleteMany and the otpRecord
\* literal with its createdAt.
IssueDelete(s, e, c) ==
    /\ OtpFree(s)
    /\ IssuesLeft
    /\ LET r == [OtpIdleReq EXCEPT !.op = "issue", !.email = e, !.at = now]
       IN IF e = ""
          THEN otps' = otps /\ OtpStep(s, OtpRespond(r, 400, "Email is required"))
          ELSE IF ~EmailRegexTest(e)
          THEN /\ otps' = otps
               /\ OtpStep(s, OtpRespond(r, 400, "Please enter a valid email address"))
          ELSE /\ otps' = OtpDeleteMany(ToLowerCase(e))
               /\ OtpStep(s, [r EXCEPT !.pc = "issue_insert", !.code = c])
    /\ UNCHANGED <<otpSeq, now>>

\* insertOne of the record.
IssueInsert(s) ==
    /\ oreq[s].pc = "issue_insert"
    /\ LET r == oreq[s]
       IN /\ otps' = OtpInsertOne(OtpRecord(ToLowerCase(r.email), r.code, r.at))
          /\ otpSeq' = otpSeq + 1
          /\ OtpStep(s, [r EXCEPT !.pc = "issue_send"])
    /\ UNCHANGED now

\* sendEmail(message): TRUE when it resolves, FALSE when sgMail.send fails and
\* it throws.
SendEmail == {TRUE, FALSE}

\* Mutant: a failed dispatch takes the record back.
IssueSend_RollsBack(s, sent) ==
    /\ oreq[s].pc = "issue_send"
    /\ otps' = IF sent THEN otps ELSE OtpDeleteMany(ToLowerCase(oreq[s].email))
    /\ OtpStep(s, IF sent
                  THEN OtpRespond(oreq[s], 200, "OTP sent successfully to your email")
                  ELSE OtpRespond(oreq[s], 500, "Error sending OTP"))
    /\ UNCHANGED <<otpSeq, now>>

\* sendEmail resolves, or throws and the catch block answers.
IssueSend(s, sent) ==
    /\ oreq[s].pc = "issue_send"
    /\ OtpStep(s, IF sent
                  THEN OtpRespond(oreq[s], 200, "OTP sent successfully to your email")
                  ELSE OtpRespond(oreq[s], 500, "Error sending OTP"))
    /\ UNCHANGED <<otps, otpSeq, now>>

\* -------------------------------------------------- POST /api/verify-otp
\* Validation, findOne and the age check.
VerifyFind(s, e, o) ==
    /\ OtpFree(s)
    /\ LET r == [OtpIdleReq EXCEPT !.op = "verify", !.email = e, !.otp = o, !.at = now]
       IN OtpStep(s,
            IF e = "" \/ o = None
            THEN OtpRespond(r, 400, "Email and OTP are required")
            ELSE LET code == OtpToString(Val(o))
                     otpRecord == OtpFindOne(ToLowerCase(e), code)
                     rf == [r EXCEPT !.code = code, !.found = otpRecord]
                 IN IF otpRecord = None
                    THEN OtpRespond(rf, 400, "Invalid or expired OTP")
                    ELSE IF Expired(OtpAge(Val(otpRecord), now))
                    THEN [rf EXCEPT !.pc = "verify_delete"]
                    ELSE [rf EXCEPT !.pc = "verify_update"])
    /\ UNCHANGED <<otps, otpSeq, now>>

\* deleteOne of the expired record.
VerifyDelete(s) ==
    /\ oreq[s].pc = "verify_delete"
    /\ otps' = OtpDeleteOne(Val(oreq[s].found).id)
    /\ OtpStep(s, OtpRespond(oreq[s], 400, "OTP has expired. Please request a new one."))
    /\ UNCHANGED <<otpSeq, now>>

\* updateOne marks the record verified.
VerifyUpdate(s) ==
    /\ oreq[s].pc = "verify_update"
    /\ otps' = OtpUpdateOne(Val(oreq[s].found).id, oreq[s].at)
    /\ OtpStep(s, OtpRespond(oreq[s], 200, "Email verified successfully"))
    /\ UNCHANGED <<otpSeq, now>>

\* ---------------------------------------------------------------- time
\* d minutes pass.
Tick(d) ==
    /\ now + d <= MaxNow
    /\ now' = now + d
    /\ UNCHANGED <<cartVars, otps, otpSeq, oreq, signupVars>>

\* The TTL monitor removes a record once more than expireAfterSeconds have
\* passed since its createdAt.
TtlExpire(r) ==
    /\ r \in otps
    /\ now - r.createdAt > TtlMinutes
    /\ otps' = otps \ {r}
    /\ UNCHANGED <<cartVars, otpSeq, now, oreq, signupVars>>

\* ---------------------------------------------------- POST /api/signup
\* password.length of a request password, and of a bcrypt hash.
PasswordLength(password) ==
    CASE password = "" -> 0 [] password = "abc" -> 3 [] password = "secret1" -> 7
      [] OTHER -> 60

\* bcrypt.hash(password, saltRounds): a string of 60 characters.
BcryptHash(password) ==
    CASE password = "secret1" -> "$2b$10$secret1" [] password = "abc" -> "$2b$10$abc"
      [] OTHER -> "$2b$10$"

\* name.trim(), email.trim(): " Ann " is "Ann" between blanks; an email that
\* passed emailRegex has no blanks.
Trim(str) == IF str = " Ann " THEN "Ann" ELSE str

\* The $jsonSchema validator of the users collection.
ValidUser(doc) ==
    /\ EmailRegexTest(doc.email)
    /\ PasswordLength(doc.password) >= 6

\* Mutant: the collection has no unique index.
EmailTaken_NoIndex(doc) == FALSE

\* The unique index { email: 1 } of the users collection.
EmailTaken(doc) == \E u \in users : u.email = doc.email

\* usersCollection.findOne({ email })
UserFindOne(email) ==
    LET m == {u \in users : u.email = email}
    IN IF m = {} THEN None ELSE Some(CHOOSE u \in m : \A v \in m : u.id <= v.id)

\* usersCollection.insertOne(doc): ok is FALSE when the call throws, and code
\* is the error's code.
UserInsertOne(doc) ==
    LET d == [doc EXCEPT !.id = Cardinality(users) + 1]
    IN IF ~ValidUser(doc) THEN [ok |-> FALSE, code |-> 121, users |-> users, doc |-> doc]
       ELSE IF EmailTaken(doc)
       THEN [ok |-> FALSE, code |-> 11000, users |-> users, doc |-> doc]
       ELSE [ok |-> TRUE, code |-> 0, users |-> users \cup {d}, doc |-> d]

\* usersCollection.findOne({ _id })
UserFindById(id) ==
    IF \E u \in users : u.id = id THEN Some(CHOOSE u \in users : u.id = id) ELSE None

SignupRespond(r, status, message) ==
    [r EXCEPT !.pc = "done", !.res = Some([status |-> status, message |-> message])]

\* Slot s moves to r.
SignupStep(s, r) ==
    /\ sreq' = [sreq EXCEPT ![s] = r]
    /\ UNCHANGED <<cartVars, otpVars>>

\* Validation and the findOne by email.
SignupFind(s, e, p, n) ==
    /\ sreq[s].pc \in {"idle", "done"}
    /\ LET r == [SignupIdleReq EXCEPT !.email = e, !.password = p, !.name = n]
       IN SignupStep(s,
            IF e = "" \/ p = "" \/ n = ""
            THEN SignupRespond(r, 400, "Name, email, and password are required fields")
            ELSE IF ~EmailRegexTest(e)
            THEN SignupRespond(r, 400, "Please enter a valid email address")
            ELSE IF PasswordLength(p) < 6
            THEN SignupRespond(r, 400, "Password must be at least 6 characters long")
            ELSE IF UserFindOne(ToLowerCase(e)) # None
            THEN SignupRespond(r, 400, "User with this email already exists")
            ELSE [r EXCEPT !.pc = "signup_hash"])
    /\ UNCHANGED users

\* bcrypt.hash resolves; the newUser literal.
SignupHash(s) ==
    /\ sreq[s].pc = "signup_hash"
    /\ LET r == sreq[s]
       IN SignupStep(s, [r EXCEPT !.pc = "signup_insert", !.newUser = Some(
            [id |-> 0, name |-> Trim(r.name), email |-> Trim(ToLowerCase(r.email)),
             password |-> BcryptHash(r.password)])])
    /\ UNCHANGED users

\* insertOne; error code 11000 is answered as a duplicate email.
SignupInsert(s) ==
    /\ sreq[s].pc = "signup_insert"
    /\ LET r == sreq[s]
           w == UserInsertOne(Val(r.newUser))
       IN /\ users' = w.users
          /\ SignupStep(s,
               IF w.ok THEN [r EXCEPT !.pc = "signup_read", !.newUser = Some(w.doc)]
               ELSE IF w.code = 11000
               THEN SignupRespond(r, 400, "User with this email already exists")
               ELSE SignupRespond(r, 500, "Error creating user"))

\* findOne of the inserted user, the token and the response.
SignupRead(s) ==
    /\ sreq[s].pc = "signup_read"
    /\ LET r == sreq[s]
           insertedUser == UserFindById(Val(r.newUser).id)
       IN SignupStep(s,
            IF insertedUser = None THEN SignupRespond(r, 500, "Error creating user")
            ELSE SignupRespond(r, 201, "User created successfully"))
    /\ UNCHANGED users

\* ------------------------------------------------------ specifications
\* A handler of slot s, with its request drawn from U, P and Q.
Handler(s, U, P, Q) ==
    \/ \E u \in U : GetCartFind(s, u)
    \/ GetCartInsert(s)
    \/ \E u \in U, p \in P, q \in Q : AddItemFindProduct(s, u, p, q)
    \/ AddItemFindCart(s)
    \/ AddItemSave(s)
    \/ \E u \in U, p \in P, q \in Q : UpdateItemFindCart(s, u, p, q)
    \/ UpdateItemFindProduct(s)
    \/ UpdateItemSave(s)
    \/ \E u \in U, p \in P \ {""} : RemoveItemFindCart(s, u, p)
    \/ RemoveItemSave(s)
    \/ \E u \in U : ClearCartFind(s, u)
    \/ ClearCartSave(s)

\* Request bodies and route parameters: product ids ("zz" is no ObjectId, ""
\* is a missing field) and quantities (None is a missing field).
ReqIds == {"p1", "P1", "p2", "zz", ""}

ReqQuantities == {None} \cup {Some(n) : n \in -1..MaxQty}

\* The product whose price changes.
PricedIds == {NewObjectId("p1")}

\* One user's requests, one at a time, each run to its response.
Next ==
    \/ Handler(1, {"u1"}, ReqIds, ReqQuantities)
    \/ \E o \in PricedIds, price \in Prices : CatalogPriceChange(o, price)
    \/ \E o \in ProductIds : DeleteProduct(o)

Spec == Init /\ [][Next]_vars

\* Two requests at a time, interleaved at their store calls.
ConcIds == {"p1"}

ConcQuantities == {Some(1)}

NextConc == \E s \in Slots : Handler(s, Users, ConcIds, ConcQuantities)

SpecConc == Init /\ [][NextConc]_vars

\* Scenarios of up to three addItem and updateItem calls of one user, from a
\* store without carts and a catalog where p1 has five items in stock; the
\* log keeps the calls.
CallProducts ==
    [o \in ProductIds |->
        IF o = NewObjectId("p1") THEN Some([price |-> 100, stock |-> 5])
                                 ELSE Some([price |-> 120, stock |-> 1])]

InitCalls ==
    /\ products = CallProducts
    /\ carts = {}
    /\ req = [s \in Slots |-> IdleReq]
    /\ log = Some(<<>>)
    /\ InitOtps
    /\ InitUsers

CallIds == {"p1", "P1"}

CallQuantities == {Some(0), Some(2), Some(3), Some(5)}

NextCalls ==
    \/ \E p \in CallIds, q \in CallQuantities : AddItemFindProduct(1, "u1", p, q)
    \/ AddItemFindCart(1)
    \/ AddItemSave(1)
    \/ \E p \in CallIds, q \in CallQuantities : UpdateItemFindCart(1, "u1", p, q)
    \/ UpdateItemFindProduct(1)
    \/ UpdateItemSave(1)
    \/ \E o \in PricedIds, price \in Prices : CatalogPriceChange(o, price)

SpecCalls == InitCalls /\ [][NextCalls]_vars

\* Up to three getOrCreateCart and addItem calls of one user for two products,
\* two at a time, interleaved at their store calls; the log keeps the order
\* in which they are answered.
InitRace ==
    /\ products = InitProducts
    /\ carts = {}
    /\ req = [s \in Slots |-> IdleReq]
    /\ log = Some(<<>>)
    /\ InitOtps
    /\ InitUsers

RaceIds == {"p1", "p2"}

NextRace ==
    \E s \in Slots :
        \/ GetCartFind(s, "u1")
        \/ GetCartInsert(s)
        \/ \E p \in RaceIds : AddItemFindProduct(s, "u1", p, Some(1))
        \/ AddItemFindCart(s)
        \/ AddItemSave(s)

SpecRace == InitRace /\ [][NextRace]_vars

\* An OTP handler of slot s, with its request drawn from E and O and the
\* generated code from C.
OtpHandler(s, E, C, O) ==
    \/ \E e \in E, c \in C : IssueDelete(s, e, c)
    \/ IssueInsert(s)
    \/ \E sent \in SendEmail : IssueSend(s, sent)
    \/ \E e \in E, o \in O : VerifyFind(s, e, o)
    \/ VerifyDelete(s)
    \/ VerifyUpdate(s)

\* Request emails ("" is a missing field) and otps (None is a missing field).
ReqEmails == {"a@x.io", "A@x.io", "nomail", ""}

ReqOtps == {None, Some(Str("100000")), Some(Str("999999")), Some(Num(100000))}

\* The steps of the clock.
Delays == {5, 6}

\* One OTP request at a time, each run to its response, while time passes.
NextOtp ==
    \/ OtpHandler(1, ReqEmails, Codes, ReqOtps)
    \/ \E d \in Delays : Tick(d)
    \/ \E r \in otps : TtlExpire(r)

SpecOtp == Init /\ [][NextOtp]_vars

\* Scenarios of up to three OTP calls; the log keeps the calls.
SpecOtpCalls == InitRace /\ [][NextOtp]_vars

\* Two OTP requests at a time, interleaved at their store calls.
ConcEmails == {"a@x.io", "b@x.io"}

ConcOtps == {Some(Str("100000"))}

\* The records of this specification's requests expire in one step.
ConcDelays == {11}

NextOtpConc ==
    \/ \E s \in Slots : OtpHandler(s, ConcEmails, Codes, ConcOtps)
    \/ \E d \in ConcDelays : Tick(d)
    \/ \E r \in otps : TtlExpire(r)

SpecOtpConc == Init /\ [][NextOtpConc]_vars

\* Request bodies of signup ("" is a missing field, "abc" is too short).
SignupEmails == {"a@x.io", "A@x.io", "b@x.io", "nomail", ""}

SignupPasswords == {"secret1", "abc", ""}

SignupNames == {"Ann", " Ann ", ""}

\* Two signup requests at a time, interleaved at their awaits.
NextSignup ==
    \E s \in Slots :
        \/ \E e \in SignupEmails, p \in SignupPasswords, n \in SignupNames :
              SignupFind(s, e, p, n)
        \/ SignupHash(s)
        \/ SignupInsert(s)
        \/ SignupRead(s)

SpecSignup == Init /\ [][NextSignup]_vars

\* =============================================================== claims
\* An answered call of slot s.
Answered(s, op) == req[s].pc = "done" /\ req[s].op = op

Status(s) == Val(req[s].res).status

\* The sums a cart's totals are to equal, taken line by line from the front.
RECURSIVE SumAmount(_)
SumAmount(items) ==
    IF items = <<>> THEN 0
    ELSE Head(items).priceAtTime * Head(items).quantity + SumAmount(Tail(items))

RECURSIVE SumQuantity(_)
SumQuantity(items) ==
    IF items = <<>> THEN 0 ELSE Head(items).quantity + SumQuantity(Tail(items))

TotalsMatch(c) ==
    c.totalAmount = SumAmount(c.items) /\ c.totalItems = SumQuantity(c.items)

\* C1: after every successful addItem, updateItem, removeItem or clearCart the
\* cart the call returns is the stored one, and every stored cart has
\* totalAmount = sum of priceAtTime * quantity and totalItems = sum of quantity
\* over its lines.
C1_TotalsMatchLines ==
    /\ \A c \in carts : TotalsMatch(c)
    /\ \A op \in {"addItem", "updateItem", "removeItem", "clearCart"} :
          (Answered(1, op) /\ Status(1) = 200) =>
              /\ Val(req[1].res).cart # None
              /\ Val(Val(req[1].res).cart) \in carts
              /\ TotalsMatch(Val(Val(req[1].res).cart))

\* A successful updateItem has stored a cart of two lines, three items in all.
C1_Witness ==
    /\ Answered(1, "updateItem") /\ Status(1) = 200
    /\ \E c \in carts : Len(c.items) = 2 /\ c.totalItems = 3 /\ c.totalAmount > 300

\* The number of lines of cart c that carry ObjectId o.
LinesOf(c, o) == Cardinality({i \in 1..Len(c.items) : c.items[i].productId = o})

\* C2: every stored cart holds at most one line per productId.
C2_OneLinePerProduct ==
    \A c \in carts : \A o \in ProductIds : LinesOf(c, o) <= 1

\* The request of slot 1, once answered.
Quantity1 == Val(req[1].quantity)

Product1 == Val(req[1].product)

Result1 == Val(Val(req[1].res).cart)

\* The items of the cart a handler read (none when it found no cart).
FoundItems(r) == IF r.found = None THEN <<>> ELSE Val(r.found).items

\* A logged call: op on product id p with quantity q, answered with status 200.
Succeeded(c, op, p, q) ==
    c.op = op /\ c.productId = p /\ c.quantity = Some(q) /\ c.res.status = 200

\* C3: from a cart without a line for p, addItem(u, p, q1) followed by
\* addItem(u, p, q2), with q1 + q2 within the stock, leaves exactly one line
\* for p, of quantity q1 + q2 and of the price the first call read.
C3_TwoAddsOneLine ==
    \A p \in CallIds, q1 \in 1..5, q2 \in 1..5 :
        ( /\ log # None
          /\ Len(Val(log)) = 2
          /\ Succeeded(Val(log)[1], "addItem", p, q1)
          /\ Succeeded(Val(log)[2], "addItem", p, q2)
          /\ q1 + q2 <= Val(Val(log)[2].product).stock )
        => LET c == Val(Val(log)[2].res.cart)
               o == NewObjectId(p)
           IN /\ LinesOf(c, o) = 1
              /\ \A i \in 1..Len(c.items) :
                    c.items[i].productId = o =>
                        /\ c.items[i].quantity = q1 + q2
                        /\ c.items[i].priceAtTime = Val(Val(log)[1].product).price

\* C4: for a product without a line in the cart, addItem with a quantity above
\* the stock is refused as insufficient stock, and with a quantity equal to
\* the stock it succeeds, storing the cart it read with the new line appended.
C4_AddAtStockLimit ==
    (Answered(1, "addItem") /\ req[1].product # None
        /\ LinesOf([items |-> FoundItems(req[1])], NewObjectId(req[1].productId)) = 0)
    => /\ Quantity1 > Product1.stock =>
            /\ Status(1) = 400
            /\ Val(req[1].res).error = "Insufficient stock"
       /\ Quantity1 = Product1.stock =>
            /\ Status(1) = 200
            /\ Result1 \in carts
            /\ Result1.userId = req[1].userId
            /\ Result1.items =
                 Append(FoundItems(req[1]),
                        [productId |-> NewObjectId(req[1].productId),
                         quantity |-> Quantity1, priceAtTime |-> Product1.price])
            /\ req[1].found # None => Result1.id = Val(req[1].found).id

\* addItem of the whole stock of p1 has succeeded on a cart that held a line of p2.
C4_Witness ==
    /\ Answered(1, "addItem") /\ Status(1) = 200
    /\ req[1].productId = "p1" /\ Quantity1 = Product1.stock
    /\ Len(FoundItems(req[1])) = 1
    /\ Len(Result1.items) = 2

\* The line a successful addItem or updateItem wrote.
WrittenLine1 ==
    IF req[1].index > 0 THEN Result1.items[req[1].index]
    ELSE Result1.items[Len(Result1.items)]

\* C5: the line a successful addItem or updateItem (quantity > 0) writes has a
\* quantity of at most the stock the same call read.
C5_WrittenWithinStock ==
    \A op \in {"addItem", "updateItem"} :
        (Answered(1, op) /\ Status(1) = 200 /\ Quantity1 > 0)
        => /\ req[1].product # None
           /\ WrittenLine1.productId = NewObjectId(req[1].productId)
           /\ WrittenLine1.quantity <= Product1.stock

\* addItem has raised an existing line to the whole stock.
C5_Witness ==
    /\ Answered(1, "addItem") /\ Status(1) = 200
    /\ req[1].index > 0
    /\ WrittenLine1.quantity = Product1.stock

\* C6: an addItem refused for insufficient stock, for a product that has a line
\* in the cart, reports stock - existingQuantity.
C6_ReportsRemaining ==
    LET r == req[1]
        stored == CartFindOne(r.userId)
        i == IF stored = None THEN 0 ELSE FindIndex(Val(stored).items, r.productId)
    IN (Answered(1, "addItem") /\ Status(1) = 400 /\ r.product # None /\ i > 0)
       => Val(r.res).avail = Product1.stock - Val(stored).items[i].quantity

\* C7: updateItem(u, p, 0) on a cart that has a line for p succeeds, whether or
\* not the product is read, and stores the cart without that line, the other
\* lines as they were and the totals recomputed.
C7_UpdateZeroRemoves ==
    LET r == req[1] IN
    (Answered(1, "updateItem") /\ r.quantity = Some(0) /\ ObjectIdIsValid(r.productId)
        /\ LinesOf([items |-> FoundItems(r)], NewObjectId(r.productId)) >= 1)
    => /\ Status(1) = 200
       /\ r.product = None
       /\ Result1 \in carts
       /\ Len(Result1.items) = Len(FoundItems(r)) - 1
       /\ \E i \in 1..Len(FoundItems(r)) :
             /\ FoundItems(r)[i].productId = NewObjectId(r.productId)
             /\ Result1.items = Splice(FoundItems(r), i)
       /\ TotalsMatch(Result1)

\* C8: updateItem(u, p, q) with 0 < q <= stock on a cart that has a line for p
\* sets that line's quantity to q, whatever it was, and leaves the rest of the
\* cart; and with p1 at price 100 and stock 5, from no cart, addItem(p1, 2)
\* gives totals 200/2, then updateItem(p1, 5) gives 500/5, then
\* updateItem(p1, 0) gives an empty cart with totals 0/0.
C8_UpdateSetsQuantity ==
    /\ LET r == req[1]
           o == NewObjectId(r.productId)
       IN (Answered(1, "updateItem") /\ Quantity1 > 0 /\ ObjectIdIsValid(r.productId)
              /\ LinesOf([items |-> FoundItems(r)], o) >= 1
              /\ products[o] # None /\ Quantity1 <= Val(products[o]).stock)
          => /\ Status(1) = 200
             /\ Result1 \in carts
             /\ \E i \in 1..Len(FoundItems(r)) :
                   /\ FoundItems(r)[i].productId = o
                   /\ Result1.items = [FoundItems(r) EXCEPT ![i].quantity = Quantity1]
             /\ TotalsMatch(Result1)
    /\ LET l == Val(log)
           example(n) ==
               /\ Len(l) >= n
               /\ l[1].op = "addItem" /\ l[1].productId = "p1" /\ l[1].quantity = Some(2)
               /\ l[1].product = Some([price |-> 100, stock |-> 5])
               /\ n >= 2 => l[2].op = "updateItem" /\ l[2].productId = "p1"
                            /\ l[2].quantity = Some(5)
               /\ n >= 3 => l[3].op = "updateItem" /\ l[3].productId = "p1"
                            /\ l[3].quantity = Some(0)
           totals(c, amount, items) ==
               /\ c.res.status = 200
               /\ Val(c.res.cart).totalAmount = amount
               /\ Val(c.res.cart).totalItems = items
       IN /\ example(1) =>
               /\ totals(l[1], 200, 2)
               /\ Val(l[1].res.cart).items =
                    <<[productId |-> NewObjectId("p1"), quantity |-> 2, priceAtTime |-> 100]>>
          /\ example(2) => totals(l[2], 500, 5)
          /\ example(3) => totals(l[3], 0, 0) /\ Val(l[3].res.cart).items = <<>>

\* The active carts of user u in the store.
ActiveCarts(u) == {c \in carts : c.userId = u /\ c.status = "active"}

\* C9: the store holds at most one active cart per userId, and exactly one
\* once a getOrCreateCart or addItem of that user has succeeded.
C9_OneActiveCartPerUser ==
    /\ \A u \in Users : Cardinality(ActiveCarts(u)) <= 1
    /\ \A s \in Slots, op \in {"getCart", "addItem"} :
          (Answered(s, op) /\ Status(s) = 200) =>
              Cardinality(ActiveCarts(req[s].userId)) = 1

\* Two calls of one user both found no cart; one inserted and the other was
\* refused by the unique index.
C9_Witness ==
    /\ Answered(1, "getCart") /\ Answered(2, "addItem")
    /\ req[1].userId = req[2].userId
    /\ req[1].found = None /\ req[2].found = None
    /\ Status(1) = 500 /\ Status(2) = 200
    /\ Cardinality(ActiveCarts(req[1].userId)) = 1

\* C10: getOrCreateCart for a user without an active cart stores a new empty
\* active cart and returns it; for a user with one it returns the stored cart,
\* which stays as it was and the only one.
C10_GetOrCreate ==
    LET r == req[1] IN
    Answered(1, "getCart") =>
        /\ Status(1) = 200
        /\ Result1 \in carts
        /\ ActiveCarts(r.userId) = {Result1}
        /\ r.found = None =>
              /\ Result1.id # 0
              /\ Result1 = [NewCart(r.userId) EXCEPT !.id = Result1.id]
        /\ r.found # None => Result1 = Val(r.found)

\* getOrCreateCart has found no cart and stored the empty one it returns.
C10_Witness ==
    /\ Answered(1, "getCart") /\ Status(1) = 200
    /\ req[1].found = None
    /\ Result1.items = <<>> /\ Result1.totalAmount = 0 /\ Result1.totalItems = 0
    /\ Result1.status = "active"
    /\ Result1 \in carts

\* Slot 1 starts a handler at this step.
Starts1 == req[1].pc \in {"idle", "done"} /\ req[1]' # req[1]

\* C11: no step removes a cart document or changes its id or userId; clearCart
\* on an existing active cart goes on to its replace, and the replace answers
\* 200 and leaves the cart it read with items = [], totalAmount = 0 and
\* totalItems = 0, under the same id and userId and with status active.
C11_ClearKeepsDocument ==
    [][ /\ \A c \in carts : \E d \in carts' : d.id = c.id /\ d.userId = c.userId
        /\ (Starts1 /\ req[1]'.op = "clearCart" /\ CartFindOne(req[1]'.userId) # None)
              => req[1]'.pc = "clear_save"
        /\ (req[1].pc = "clear_save" /\ req[1]'.pc = "done")
              => LET f == Val(req[1].found)
                     d == [f EXCEPT !.items = <<>>, !.totalAmount = 0, !.totalItems = 0]
                 IN /\ Val(req[1]'.res).status = 200
                    /\ Val(req[1]'.res).cart = Some(d)
                    /\ f \in carts
                    /\ carts' = (carts \ {f}) \cup {d}
                    /\ d.status = "active"
                    /\ CartFindOne(f.userId)' = Some(d) ]_vars

\* clearCart has emptied a stored cart of two lines.
C11_Witness ==
    /\ Answered(1, "clearCart") /\ Status(1) = 200
    /\ Len(FoundItems(req[1])) = 2
    /\ Result1 \in carts
    /\ Result1.items = <<>> /\ Result1.totalAmount = 0 /\ Result1.totalItems = 0

\* Slot 1 is answered at this step with 404 and the error text, and the step
\* leaves both collections as they were.
NotFound1(error) ==
    /\ req[1]'.pc = "done"
    /\ Val(req[1]'.res).status = 404
    /\ Val(req[1]'.res).error = error
    /\ carts' = carts
    /\ products' = products

\* C13: updateItem and removeItem with well-formed input, and clearCart, are
\* answered 404 "No active cart exists" when the user has no active cart;
\* updateItem and removeItem are answered 404 "Product not in cart" when the
\* cart has no line for the product; the store is unchanged in each case.
C13_NotFoundLeavesStore ==
    [][ Starts1 =>
          LET r == req[1]'
              stored == CartFindOne(r.userId)
              wellFormed ==
                  \/ r.op = "updateItem" /\ r.productId # "" /\ r.quantity # None
                                         /\ Val(r.quantity) >= 0
                  \/ r.op = "removeItem" /\ ObjectIdIsValid(r.productId)
          IN /\ (wellFormed \/ r.op = "clearCart") /\ stored = None
                   => NotFound1("No active cart exists")
             /\ (wellFormed /\ stored # None
                     /\ LinesOf(Val(stored), [hex |-> HexLower(r.productId)]) = 0)
                   => NotFound1("Product not in cart") ]_vars

\* removeItem for a product without a line, on a stored cart that has lines,
\* was answered 404 and the cart is as it was read.
C13_Witness ==
    /\ Answered(1, "removeItem") /\ Status(1) = 404
    /\ Val(req[1].res).error = "Product not in cart"
    /\ req[1].found # None /\ Len(FoundItems(req[1])) >= 1
    /\ LinesOf(Val(req[1].found), NewObjectId(req[1].productId)) = 0
    /\ Val(req[1].found) \in carts

\* C14: addItem with a productId that is present and is no well-formed
\* identifier, and a quantity above 0, is answered with status 400 and leaves
\* both collections as they were.
C14_MalformedIdRejected ==
    [][ ( /\ Starts1
          /\ req[1]'.op = "addItem"
          /\ req[1]'.productId # "" /\ ~ObjectIdIsValid(req[1]'.productId)
          /\ req[1]'.quantity # None /\ Val(req[1]'.quantity) > 0 )
        => /\ req[1]'.pc = "done"
           /\ Val(req[1]'.res).status = 400
           /\ carts' = carts /\ products' = products ]_vars

\* C12: when two addItem calls of one user for two different products have
\* both read the same stored cart and both been answered 200, the stored cart
\* is the document the later-answered call wrote: the cart both read with
\* that call's line alone, the other call's product as it was before, and
\* the cart returned to the other call is not stored.
C12_LostUpdate ==
    \A s \in Slots, t \in Slots :
        ( /\ s # t
          /\ Answered(s, "addItem") /\ Status(s) = 200
          /\ Answered(t, "addItem") /\ Status(t) = 200
          /\ req[s].userId = req[t].userId
          /\ req[s].found # None /\ req[s].found = req[t].found
          /\ NewObjectId(req[s].productId) # NewObjectId(req[t].productId)
          /\ Val(log)[Len(Val(log))] = Call(req[t]) )
        => LET f == Val(req[t].found)
               os == NewObjectId(req[s].productId)
               i == FindIndex(f.items, req[t].productId)
               line == CartItem(req[t].productId, Val(req[t].product), Val(req[t].quantity))
               written == IF i > 0
                          THEN [f.items EXCEPT ![i].quantity = @ + Val(req[t].quantity)]
                          ELSE Append(f.items, line)
           IN /\ CartFindOne(req[t].userId) = Val(req[t].res).cart
              /\ Val(CartFindOne(req[t].userId)).items = written
              /\ {j \in 1..Len(written) : written[j].productId = os}
                    = {j \in 1..Len(f.items) : f.items[j].productId = os}
              /\ \A j \in 1..Len(f.items) :
                    f.items[j].productId = os => written[j] = f.items[j]
              /\ Val(Val(req[s].res).cart) \notin carts

\* Two addItem calls read the empty cart, for p1 and for p2; both were
\* answered 200 and the stored cart has one line.
C12_Witness ==
    /\ Answered(1, "addItem") /\ Status(1) = 200 /\ req[1].productId = "p1"
    /\ Answered(2, "addItem") /\ Status(2) = 200 /\ req[2].productId = "p2"
    /\ req[1].found = req[2].found /\ req[1].found # None
    /\ FoundItems(req[1]) = <<>>
    /\ Len(Val(Val(req[1].res).cart).items) = 1
    /\ Len(Val(Val(req[2].res).cart).items) = 1
    /\ \E c \in carts : Len(c.items) = 1 /\ c.items[1].productId = NewObjectId("p2")
    /\ \A c \in carts : LinesOf(c, NewObjectId("p1")) = 0

\* An answered OTP call of slot s.
OtpAnswered(s, op) == oreq[s].pc = "done" /\ oreq[s].op = op

OtpStatus(s) == Val(oreq[s].res).status

\* The records the store holds for an email.
RecordsOf(email) == {r \in otps : r.email = email}

\* A logged issue that stored its record: it passed the validation.
Stored(c) == c.op = "issue" /\ c.res.status \in {200, 500}

\* A logged verify of the email and the code of the logged issue c.
VerifyOf(v, c) ==
    v.op = "verify" /\ ToLowerCase(v.email) = ToLowerCase(c.email) /\ v.code = c.code

\* Logged calls i < j: an issue that stored its record and a verify of its
\* email and code, with no issue for the email and no verify of the code
\* between them.
FirstVerify(l, i, j) ==
    /\ i < j
    /\ Stored(l[i])
    /\ VerifyOf(l[j], l[i])
    /\ \A k \in (i + 1)..(j - 1) :
          /\ ~(l[k].op = "issue" /\ ToLowerCase(l[k].email) = ToLowerCase(l[i].email))
          /\ ~VerifyOf(l[k], l[i])

\* Logged calls j < k: a verify of the email and code of issue i, with no
\* issue for the email between i and k.
LaterVerify(l, i, j, k) ==
    /\ j < k
    /\ VerifyOf(l[k], l[i])
    /\ \A m \in (i + 1)..(k - 1) :
          ~(l[m].op = "issue" /\ ToLowerCase(l[m].email) = ToLowerCase(l[i].email))

Invalid(c) == c.res.status = 400 /\ c.res.message = "Invalid or expired OTP"

\* Two issues for one email, one right after the other, as the first two
\* calls of the log.
TwoIssues(l) ==
    /\ Len(l) >= 2
    /\ Stored(l[1]) /\ Stored(l[2])
    /\ ToLowerCase(l[1].email) = ToLowerCase(l[2].email)

\* After the two issues, before any time has passed and before a third call
\* has started, the store holds exactly one record for the email.
OneRecordAfterTwoIssues(l) ==
    (TwoIssues(l) /\ Len(l) = 2 /\ oreq[1].pc = "done" /\ now = l[1].at)
    => /\ Cardinality(RecordsOf(ToLowerCase(l[1].email))) = 1
       /\ \E r \in otps : r.email = ToLowerCase(l[1].email) /\ r.otp = l[2].code

\* C15 as stated: after issue(email) immediately followed by issue(email),
\* exactly one record exists for the email, and a verify with the code of the
\* first issue fails, for every pair of codes the two issues generate.
C15_FirstCodeFails ==
    LET l == Val(log)
    IN /\ OneRecordAfterTwoIssues(l)
       /\ (TwoIssues(l) /\ Len(l) = 3 /\ VerifyOf(l[3], l[1])) => l[3].res.status # 200

\* C15 amended: the same, for every pair of different codes; the verify is
\* answered "Invalid or expired OTP".
C15_FirstCodeFailsIfDistinct ==
    LET l == Val(log)
    IN /\ OneRecordAfterTwoIssues(l)
       /\ (TwoIssues(l) /\ Len(l) = 3 /\ VerifyOf(l[3], l[1]) /\ l[1].code # l[2].code)
             => Invalid(l[3])

\* Two issues generated different codes and a verify of the first code, with
\* no time passed, was refused; the record of the second issue is stored.
C15_Witness ==
    LET l == Val(log)
    IN /\ TwoIssues(l) /\ Len(l) = 3 /\ VerifyOf(l[3], l[1])
       /\ l[1].code # l[2].code
       /\ now = l[1].at
       /\ Invalid(l[3])
       /\ Cardinality(RecordsOf(ToLowerCase(l[1].email))) = 1

\* C16: the store holds at most one record per email, in every state of every
\* interleaving of the handlers.
C16_OneRecordPerEmail ==
    \A e \in ConcEmails : Cardinality(RecordsOf(e)) <= 1

\* C17: after an issue stored code c, the first verify of the email and c,
\* made at most 10 minutes after the record's createdAt, is answered 200, and
\* every later verify of the email and c, with no issue for the email in
\* between, is answered "Invalid or expired OTP".
C17_VerifyOnce ==
    LET l == Val(log)
    IN \A i \in 1..Len(l), j \in 1..Len(l) :
          (FirstVerify(l, i, j) /\ l[j].at - l[i].at <= 10)
          => /\ l[j].res.status = 200
             /\ \A k \in 1..Len(l) : LaterVerify(l, i, j, k) => Invalid(l[k])

\* An issue, a verify of its code ten minutes later that succeeded, and a
\* second verify of the code that was refused.
C17_Witness ==
    LET l == Val(log)
    IN /\ Len(l) = 3
       /\ FirstVerify(l, 1, 2) /\ l[2].at - l[1].at = 10 /\ l[2].res.status = 200
       /\ LaterVerify(l, 1, 2, 3) /\ Invalid(l[3])

\* C18: of the verify calls that found one record, at most one is answered 200.
C18_SingleUse ==
    \A s \in Slots, t \in Slots :
        ( /\ s # t
          /\ OtpAnswered(s, "verify") /\ OtpAnswered(t, "verify")
          /\ oreq[s].found # None /\ oreq[s].found = oreq[t].found )
        => ~(OtpStatus(s) = 200 /\ OtpStatus(t) = 200)

Expired400(c) ==
    c.res.status = 400 /\ c.res.message = "OTP has expired. Please request a new one."

\* C19 as stated: the first verify of a stored code, made 11 minutes after the
\* issue, is answered as expired, whether or not the TTL monitor has removed
\* the record, and every later verify of the code is answered "Invalid or
\* expired OTP".
C19_ExpiredAfterEleven ==
    LET l == Val(log)
    IN \A i \in 1..Len(l), j \in 1..Len(l) :
          (FirstVerify(l, i, j) /\ l[j].at - l[i].at = 11)
          => /\ Expired400(l[j])
             /\ \A k \in 1..Len(l) : LaterVerify(l, i, j, k) => Invalid(l[k])

\* C19 amended: that verify is answered as expired when it finds the record
\* and "Invalid or expired OTP" when the TTL monitor has removed it; every
\* later verify of the code is answered "Invalid or expired OTP".
C19_ExpiredOrInvalid ==
    LET l == Val(log)
    IN \A i \in 1..Len(l), j \in 1..Len(l) :
          (FirstVerify(l, i, j) /\ l[j].at - l[i].at = 11)
          => /\ l[j].found # None => Expired400(l[j])
             /\ l[j].found = None => Invalid(l[j])
             /\ \A k \in 1..Len(l) : LaterVerify(l, i, j, k) => Invalid(l[k])

\* An issue, a verify of its code eleven minutes later that found the record
\* and was answered as expired, and a second verify that was refused; the
\* record is gone.
C19_Witness ==
    LET l == Val(log)
    IN /\ Len(l) = 3
       /\ FirstVerify(l, 1, 2) /\ l[2].at - l[1].at = 11
       /\ l[2].found # None /\ Expired400(l[2])
       /\ LaterVerify(l, 1, 2, 3) /\ Invalid(l[3])
       /\ RecordsOf(ToLowerCase(l[1].email)) = {}

\* Slot 1 starts an OTP handler at this step.
OtpStarts1 == oreq[1].pc \in {"idle", "done"} /\ oreq[1]' # oreq[1]

\* The store holds an unverified record of the email and the otp that is at
\* most 10 minutes old.
Matches(e, o) ==
    /\ o # None
    /\ \E r \in otps : /\ r.email = ToLowerCase(e)
                       /\ r.otp = OtpToString(Val(o))
                       /\ ~r.verified
                       /\ now - r.createdAt <= 10

\* C20: verify goes on to mark the record verified exactly when the store
\* holds an unverified record of the email and code aged at most 10 minutes,
\* and it is answered 200 exactly when it went on to do so.
C20_VerifyIffValid ==
    [][ /\ (OtpStarts1 /\ oreq[1]'.op = "verify")
             => (oreq[1]'.pc = "verify_update"
                    <=> Matches(oreq[1]'.email, oreq[1]'.otp))
        /\ (oreq[1]'.op = "verify" /\ oreq[1]'.pc = "done" /\ oreq[1]' # oreq[1])
             => (Val(oreq[1]'.res).status = 200 <=> oreq[1].pc = "verify_update") ]_vars

\* A verify has succeeded on a record aged exactly 10 minutes.
C20_Witness ==
    /\ OtpAnswered(1, "verify") /\ OtpStatus(1) = 200
    /\ oreq[1].found # None
    /\ oreq[1].at - Val(oreq[1].found).createdAt = 10

\* C21: a verify with an email and an otp is answered 400 "Invalid or expired
\* OTP", the same response, when the store holds no record for the email, when
\* it holds records for the email and none with the code, and when the record
\* with the code is verified already.
C21_SameRefusal ==
    [][ LET r == oreq[1]'
            email == ToLowerCase(r.email)
            code == OtpToString(Val(r.otp))
            noRecord == RecordsOf(email) = {}
            wrongCode == RecordsOf(email) # {} /\ \A d \in RecordsOf(email) : d.otp # code
            alreadyVerified ==
                /\ \E d \in RecordsOf(email) : d.otp = code
                /\ \A d \in RecordsOf(email) : d.otp = code => d.verified
        IN (OtpStarts1 /\ r.op = "verify" /\ r.email # "" /\ r.otp # None
               /\ (noRecord \/ wrongCode \/ alreadyVerified))
           => /\ r.pc = "done"
              /\ r.res = Some([status |-> 400, message |-> "Invalid or expired OTP"]) ]_vars

\* A verify of the code of a stored record that is verified already was
\* answered "Invalid or expired OTP".
C21_Witness ==
    /\ OtpAnswered(1, "verify")
    /\ oreq[1].res = Some([status |-> 400, message |-> "Invalid or expired OTP"])
    /\ \E d \in RecordsOf(ToLowerCase(oreq[1].email)) : d.otp = oreq[1].code /\ d.verified

\* The record the logged issue c inserted, under the id n.
IssuedRecord(c, n) ==
    [id |-> n, email |-> ToLowerCase(c.email), otp |-> c.code, createdAt |-> c.at,
     verified |-> FALSE, verifiedAt |-> None]

\* C22: an issue whose email dispatch failed is answered with an error (500);
\* once it is answered, and for as long as 10 minutes have not passed, its
\* record is the one record stored for the email, unverified; and the first
\* verify of its code within 10 minutes is answered 200.
C22_DispatchFailureKeepsRecord ==
    LET l == Val(log)
    IN \A i \in 1..Len(l) :
          (l[i].op = "issue" /\ l[i].res.status = 500)
          => /\ l[i].res.message = "Error sending OTP"
             /\ (Len(l) = i /\ oreq[1].pc = "done" /\ now - l[i].at <= 10)
                   => RecordsOf(ToLowerCase(l[i].email)) = {IssuedRecord(l[i], otpSeq)}
             /\ \A j \in 1..Len(l) :
                   (FirstVerify(l, i, j) /\ l[j].at - l[i].at <= 10)
                   => l[j].res.status = 200

\* An issue, a second issue for the email with another code whose dispatch
\* failed, and a verify of the second code that succeeded.
C22_Witness ==
    LET l == Val(log)
    IN /\ Len(l) = 3
       /\ Stored(l[1]) /\ l[1].res.status = 200
       /\ l[2].op = "issue" /\ l[2].res.status = 500
       /\ ToLowerCase(l[2].email) = ToLowerCase(l[1].email)
       /\ l[2].code # l[1].code
       /\ FirstVerify(l, 2, 3) /\ l[3].res.status = 200
       /\ \A d \in otps : d.otp # l[1].code

\* Every line of a that is still a line of b has its productId and its
\* priceAtTime: b is a with quantities changed, with one line appended, with
\* one line removed or with all lines removed.
LinesKept(a, b) ==
    \/ /\ Len(b) = Len(a)
       /\ \A i \in 1..Len(a) : /\ b[i].productId = a[i].productId
                               /\ b[i].priceAtTime = a[i].priceAtTime
    \/ Len(b) = Len(a) + 1 /\ SubSeq(b, 1, Len(a)) = a
    \/ \E k \in 1..Len(a) : b = Splice(a, k)
    \/ b = <<>>

\* C23: no step, of a cart handler or of the catalog, changes the priceAtTime
\* of a line that stays in its cart; and a line that addItem appends carries
\* the price of the product document that call read from the catalog.
C23_PriceAtTimeKept ==
    [][ /\ \A c \in carts : \E d \in carts' : d.id = c.id /\ LinesKept(c.items, d.items)
        /\ (Starts1 /\ req[1]'.op = "addItem" /\ req[1]'.product # None)
              => req[1]'.product = products[NewObjectId(req[1]'.productId)]
        /\ (req[1].pc = "add_save" /\ req[1]'.pc = "done"
               /\ Val(req[1]'.res).status = 200 /\ req[1].index = 0)
              => LET items == Val(Val(req[1]'.res).cart).items
                 IN /\ Val(Val(req[1]'.res).cart) \in carts'
                    /\ items[Len(items)].priceAtTime = Val(req[1].product).price ]_vars

\* updateItem has set the quantity of a line whose priceAtTime is 100 while
\* the catalog price it read is 120.
C23_Witness ==
    /\ Answered(1, "updateItem") /\ Status(1) = 200
    /\ Quantity1 > 0
    /\ Product1.price = 120
    /\ WrittenLine1.priceAtTime = 100
    /\ Result1 \in carts

\* C24: no step of a cart handler changes the products collection: every
\* product document has the same stock and price after the step as before.
C24_ProductsNotWritten ==
    [][ req' # req => products' = products ]_vars

\* addItem has put the whole stock of a product into the cart, and the product
\* document is the one the call read.
C24_Witness ==
    /\ Answered(1, "addItem") /\ Status(1) = 200
    /\ Quantity1 = Product1.stock
    /\ products[NewObjectId(req[1].productId)] = req[1].product
    /\ WrittenLine1.quantity = Val(products[NewObjectId(req[1].productId)]).stock

\* C25: addItem is answered 400 for a missing or non-positive quantity, 404
\* for a well-formed productId without product, 400 when the stock is below
\* the quantity and 400 when it is below the quantity plus that of the line
\* found; and every step of an addItem other than a save answered 200 leaves
\* the cart and products collections as they were, so a rejected call has
\* changed no cart and created none.
C25_RejectedAddLeavesStore ==
    [][ LET r == req[1]'
            q == r.quantity
            product == products[NewObjectId(r.productId)]
            refused(status) == r.pc = "done" /\ Val(r.res).status = status
        IN /\ (r.op = "addItem" /\ r # req[1]
                  /\ ~(r.pc = "done" /\ Val(r.res).status = 200))
                 => carts' = carts /\ products' = products
           /\ (Starts1 /\ r.op = "addItem")
                 => /\ (q = None \/ Val(q) <= 0) => refused(400)
                    /\ (q # None /\ Val(q) > 0 /\ ObjectIdIsValid(r.productId))
                          => /\ product = None => refused(404)
                             /\ (product # None /\ Val(product).stock < Val(q))
                                   => refused(400)
           /\ (req[1].pc = "add_findCart" /\ r.index > 0
                  /\ Val(r.product).stock
                       < Val(r.found).items[r.index].quantity + Val(q))
                 => refused(400) ]_vars

\* addItem was refused at the second stock check, and the cart it read is
\* stored as it was.
C25_Witness ==
    /\ Answered(1, "addItem") /\ Status(1) = 400
    /\ Val(req[1].res).error = "Insufficient stock for total quantity"
    /\ req[1].found # None
    /\ Val(req[1].found) \in carts
    /\ Cardinality(carts) = 1

\* The stored carts of the users other than u.
CartsOfOthers(u, store) == {c \in store : c.userId # u}

\* C26: a step of a cart handler running for user u leaves the stored carts
\* of every other user as they were, and the cart it found, the cart it
\* builds and the cart it returns are carts of u; in every interleaving of two
\* requests.
C26_OtherUsersUntouched ==
    [][ \A s \in Slots :
          req[s]' # req[s] =>
              LET r == req[s]'
              IN /\ CartsOfOthers(r.userId, carts') = CartsOfOthers(r.userId, carts)
                 /\ r.found # None => Val(r.found).userId = r.userId
                 /\ r.cart # None => Val(r.cart).userId = r.userId
                 /\ (r.pc = "done" /\ Val(r.res).cart # None)
                       => Val(Val(r.res).cart).userId = r.userId ]_vars

\* Two users have a cart with a line each, and the addItem of one of them was
\* answered 200 while the other's cart was stored.
C26_Witness ==
    /\ Answered(1, "addItem") /\ Status(1) = 200 /\ req[1].userId = "u1"
    /\ req[1].found # None
    /\ \E c \in carts : c.userId = "u2" /\ Len(c.items) = 1 /\ c.id < Val(req[1].found).id
    /\ \E c \in carts : c.userId = "u1" /\ Len(c.items) = 1

\* C27: after every step every line of every stored cart has quantity >= 1;
\* addItem with a quantity of 0 or less and updateItem with a negative
\* quantity are answered 400 and store nothing; updateItem with quantity 0
\* that finds its line saves the cart without that line and is answered 200.
C27_QuantityAtLeastOne ==
    [][ LET r == req[1]'
            q == r.quantity
        IN /\ \A c \in carts' : \A i \in 1..Len(c.items) : c.items[i].quantity >= 1
           /\ (Starts1 /\ r.op = "addItem" /\ q # None /\ Val(q) <= 0)
                 => r.pc = "done" /\ Val(r.res).status = 400 /\ carts' = carts
           /\ (Starts1 /\ r.op = "updateItem" /\ q # None /\ Val(q) < 0)
                 => r.pc = "done" /\ Val(r.res).status = 400 /\ carts' = carts
           /\ (Starts1 /\ r.op = "updateItem" /\ q = Some(0) /\ r.index > 0)
                 => /\ r.pc = "update_save"
                    /\ Val(r.cart).items =
                         SubSeq(Val(r.found).items, 1, r.index - 1)
                           \o SubSeq(Val(r.found).items, r.index + 1,
                                     Len(Val(r.found).items))
           /\ (req[1].pc = "update_save" /\ r.pc = "done")
                 => /\ Val(r.res).status = 200
                    /\ Val(req[1].cart) \in carts' ]_vars

\* updateItem with quantity 0 has removed one of two lines.
C27_Witness ==
    /\ Answered(1, "updateItem") /\ Status(1) = 200
    /\ req[1].quantity = Some(0)
    /\ Len(FoundItems(req[1])) = 2
    /\ Len(Result1.items) = 1
    /\ Result1 \in carts
    /\ Result1.items[1].quantity >= 1

\* Slot s was answered after it found no cart and ran its insertOne.
InsertedAfterMiss(s) ==
    /\ req[s].pc = "done"
    /\ req[s].op \in {"getCart", "addItem"}
    /\ req[s].found = None
    /\ req[s].cart # None
    /\ Status(s) \in {200, 500}

\* C28: when two getOrCreateCart or addItem calls of one user have both found
\* no cart before either inserted, both are answered 200, and the line of an
\* addItem answered 200 is in the one stored cart.
C28_BothCreateSucceed ==
    \A s \in Slots, t \in Slots :
        ( /\ s # t
          /\ InsertedAfterMiss(s) /\ InsertedAfterMiss(t)
          /\ req[s].userId = req[t].userId )
        => /\ Status(s) = 200 /\ Status(t) = 200
           /\ Cardinality(ActiveCarts(req[s].userId)) = 1
           /\ req[s].op = "addItem" =>
                 \E c \in ActiveCarts(req[s].userId) :
                    LinesOf(c, NewObjectId(req[s].productId)) >= 1

\* C29: the step at which a verify that is answered 200 runs its updateOne
\* leaves a verified record of the call's email and code in the store, in
\* every interleaving with other requests.
C29_SuccessLeavesVerifiedRecord ==
    [][ \A s \in Slots :
          (oreq[s].pc = "verify_update" /\ oreq[s]'.pc = "done"
              /\ Val(oreq[s]'.res).status = 200)
          => \E d \in otps' : /\ d.email = ToLowerCase(oreq[s].email)
                              /\ d.otp = oreq[s].code
                              /\ d.verified ]_vars

\* The users stored under an email, compared in lower case.
UsersOf(store, email) == {u \in store : ToLowerCase(u.email) = email}

Conflict(r) ==
    /\ r.pc = "done"
    /\ r.res = Some([status |-> 400, message |-> "User with this email already exists"])

\* C30: after every step the users collection holds at most one user per
\* lower-cased email, in every interleaving of two signups; a signup with a
\* well-formed body whose email is registered when it looks it up, or when it
\* inserts, is answered 400 "User with this email already exists" and leaves
\* the users collection as it was.
C30_OneUserPerEmail ==
    [][ /\ \A e \in {ToLowerCase(x) : x \in SignupEmails} :
              Cardinality(UsersOf(users', e)) <= 1
        /\ \A s \in Slots :
              LET r == sreq[s]'
              IN /\ ( /\ sreq[s].pc \in {"idle", "done"} /\ r # sreq[s]
                      /\ EmailRegexTest(r.email)
                      /\ r.name # "" /\ PasswordLength(r.password) >= 6
                      /\ UsersOf(users, ToLowerCase(r.email)) # {} )
                    => Conflict(r) /\ users' = users
                 /\ ( /\ sreq[s].pc = "signup_insert" /\ r.pc # "signup_insert"
                      /\ UsersOf(users, ToLowerCase(r.email)) # {} )
                    => Conflict(r) /\ users' = users ]_vars

\* Two signups with one email in two spellings both found no user; one was
\* answered 201 and the other 400, and one user is stored for the email.
C30_Witness ==
    /\ sreq[1].pc = "done" /\ sreq[2].pc = "done"
    /\ sreq[1].email = "a@x.io" /\ sreq[2].email = "A@x.io"
    /\ sreq[1].newUser # None /\ sreq[2].newUser # None
    /\ Val(sreq[1].res).status = 201
    /\ Conflict(sreq[2])
    /\ Cardinality(UsersOf(users, "a@x.io")) = 1

====
